---- MODULE Spec2Model ----
(***************************************************************************)
(* Model of plugins/callback/babelfish_log.py: the CallbackModule that     *)
(* renders task results and appends them to one log file per host.         *)
(*                                                                         *)
(* Text is modelled character by character: a Python str is a sequence of  *)
(* one-character strings, so that len, split, join, json.dumps and str are *)
(* computed and not assumed.  A Python value is a tagged record; a dict is *)
(* a sequence of <<key, value>> pairs in insertion order with unique keys. *)
(***************************************************************************)
EXTENDS Integers, Sequences, FiniteSets, TLC

\* ------------------------------------------------------------------ bounds
MaxEvents == 3
MaxListLen == 2

\* ------------------------------------------------------- program constants
INFO == 20
WARNING == 30
ERROR == 40
NOTSET == 0
INLINE_LIMIT == 75
JSON_INDENT == 2

\* -------------------------------------------------------------- characters
\* The characters of texts, in code point order (str comparison, sort_keys):
\* tab, newline, form feed, carriage return and the printable ASCII ones
\* (the grave accent cannot be written in a string here).
ASCII ==
  <<"\t", "\n", "\f", "\r", " ", "!", "\"", "#", "$", "%", "&", "'", "(",
    ")", "*", "+", ",", "-", ".", "/", "0", "1", "2", "3", "4", "5", "6",
    "7", "8", "9", ":", ";", "<", "=", ">", "?", "@", "A", "B", "C", "D",
    "E", "F", "G", "H", "I", "J", "K", "L", "M", "N", "O", "P", "Q", "R",
    "S", "T", "U", "V", "W", "X", "Y", "Z", "[", "\\", "]", "^", "_",
    "a", "b", "c", "d", "e", "f", "g", "h", "i", "j", "k", "l", "m", "n",
    "o", "p", "q", "r", "s", "t", "u", "v", "w", "x", "y", "z", "{", "|",
    "}", "~">>

UPPERCASE ==
  <<"A", "B", "C", "D", "E", "F", "G", "H", "I", "J", "K", "L", "M",
    "N", "O", "P", "Q", "R", "S", "T", "U", "V", "W", "X", "Y", "Z">>

LOWERCASE ==
  <<"a", "b", "c", "d", "e", "f", "g", "h", "i", "j", "k", "l", "m",
    "n", "o", "p", "q", "r", "s", "t", "u", "v", "w", "x", "y", "z">>

DIGITS == <<"0", "1", "2", "3", "4", "5", "6", "7", "8", "9">>

NL == "\n"

Ord(c) == CHOOSE i \in 1..Len(ASCII) : ASCII[i] = c

\* str.__lt__ : lexicographic order by code point
RECURSIVE StrLess(_, _)
StrLess(a, b) ==
  IF b = <<>> THEN FALSE
  ELSE IF a = <<>> THEN TRUE
  ELSE IF Head(a) = Head(b) THEN StrLess(Tail(a), Tail(b))
  ELSE Ord(Head(a)) < Ord(Head(b))

LowerChar(c) ==
  IF \E i \in 1..Len(UPPERCASE) : UPPERCASE[i] = c
  THEN LOWERCASE[CHOOSE i \in 1..Len(UPPERCASE) : UPPERCASE[i] = c]
  ELSE c

\* str.lower()
StrLower(s) == [i \in 1..Len(s) |-> LowerChar(s[i])]

\* c * n
Rep(c, n) == [i \in 1..n |-> c]

\* "".join(parts)
RECURSIVE Concat(_)
Concat(parts) ==
  IF parts = <<>> THEN <<>> ELSE Head(parts) \o Concat(Tail(parts))

\* sep.join(parts)
RECURSIVE StrJoin(_, _)
StrJoin(sep, parts) ==
  IF parts = <<>> THEN <<>>
  ELSE IF Len(parts) = 1 THEN parts[1]
  ELSE parts[1] \o sep \o StrJoin(sep, Tail(parts))

\* s.split(c) for a one-character separator: the pieces between the
\* occurrences of c, always at least one piece
StrSplit(s, c) ==
  LET cuts == {i \in 1..Len(s) : s[i] = c}
      n == Cardinality(cuts)
      Cut(k) == IF k = 0 THEN 0
                ELSE IF k = n + 1 THEN Len(s) + 1
                ELSE CHOOSE i \in cuts :
                       Cardinality({j \in cuts : j < i}) = k - 1
  IN [k \in 1..(n + 1) |-> SubSeq(s, Cut(k - 1) + 1, Cut(k) - 1)]

\* c in s, for a one-character c
CharIn(c, s) == \E i \in 1..Len(s) : s[i] = c

\* str(n) for an int
RECURSIVE NatDigits(_)
NatDigits(n) ==
  IF n < 10 THEN <<DIGITS[n + 1]>>
  ELSE NatDigits(n \div 10) \o <<DIGITS[(n % 10) + 1]>>

IntText(n) == IF n < 0 THEN <<"-">> \o NatDigits(0 - n) ELSE NatDigits(n)

\* ---------------------------------------------------------- Python values
PyNone == [t |-> "none"]
PyBool(b) == [t |-> "bool", b |-> b]
PyInt(n) == [t |-> "int", n |-> n]
PyStr(s) == [t |-> "str", s |-> s]
PyList(elems) == [t |-> "list", elems |-> elems]
PyDict(pairs) == [t |-> "dict", pairs |-> pairs]

IsDict(v) == v.t = "dict"
IsList(v) == v.t = "list"
IsStr(v) == v.t = "str"

\* bool(v)
Truthy(v) ==
  CASE v.t = "none" -> FALSE
    [] v.t = "bool" -> v.b
    [] v.t = "int" -> v.n # 0
    [] v.t = "str" -> v.s # <<>>
    [] v.t = "list" -> v.elems # <<>>
    [] v.t = "dict" -> v.pairs # <<>>

\* key in d
HasKey(d, k) == \E i \in 1..Len(d.pairs) : d.pairs[i][1] = k

KeyIndex(d, k) == CHOOSE i \in 1..Len(d.pairs) : d.pairs[i][1] = k

\* d.get(k, default)
DictGet(d, k, default) ==
  IF HasKey(d, k) THEN d.pairs[KeyIndex(d, k)][2] ELSE default

\* d[k] = v for a key that is present (the position is kept)
DictSet(d, k, v) ==
  PyDict([i \in 1..Len(d.pairs) |->
            IF d.pairs[i][1] = k THEN <<k, v>> ELSE d.pairs[i]])

\* the dict left by d.pop(k, default)
DictWithout(d, k) ==
  LET Keep(p) == p[1] # k IN PyDict(SelectSeq(d.pairs, Keep))

DictKeys(d) == {d.pairs[i][1] : i \in 1..Len(d.pairs)}

\* repr(c) of one character inside the quotes `quote`
ReprChar(c, quote) ==
  CASE c = "\\" -> <<"\\", "\\">>
    [] c = NL -> <<"\\", "n">>
    [] c = "\t" -> <<"\\", "t">>
    [] c = "\r" -> <<"\\", "r">>
    [] c = "\f" -> <<"\\", "x", "0", "c">>
    [] c = quote -> <<"\\", c>>
    [] OTHER -> <<c>>

\* repr(s) of a str: double quotes when s holds a single quote and no double
\* quote, single quotes otherwise
ReprStr(s) ==
  LET quote == IF CharIn("'", s) /\ ~CharIn("\"", s) THEN "\"" ELSE "'"
  IN <<quote>> \o Concat([i \in 1..Len(s) |-> ReprChar(s[i], quote)])
       \o <<quote>>

\* repr(v)
RECURSIVE PyRepr(_)
PyRepr(v) ==
  CASE v.t = "none" -> <<"N", "o", "n", "e">>
    [] v.t = "bool" -> IF v.b THEN <<"T", "r", "u", "e">>
                       ELSE <<"F", "a", "l", "s", "e">>
    [] v.t = "int" -> IntText(v.n)
    [] v.t = "str" -> ReprStr(v.s)
    [] v.t = "list" ->
         <<"[">> \o StrJoin(<<",", " ">>,
                            [i \in 1..Len(v.elems) |-> PyRepr(v.elems[i])])
           \o <<"]">>
    [] v.t = "dict" ->
         <<"{">> \o StrJoin(<<",", " ">>,
                            [i \in 1..Len(v.pairs) |->
                               ReprStr(v.pairs[i][1]) \o <<":", " ">>
                                 \o PyRepr(v.pairs[i][2])])
           \o <<"}">>

\* str(v): the text itself for a str, repr(v) for the rest
PyStrOf(v) == IF v.t = "str" THEN v.s ELSE PyRepr(v)

\* ------------------------------------------------------------- json.dumps
\* The escapes of json.dumps (ensure_ascii is left on) for the characters
\* that can be written here; the other control characters and the
\* characters that are not ASCII, which it writes as \uXXXX, are not among
\* them.
JsonEscapeChar(c) ==
  CASE c = "\"" -> <<"\\", "\"">>
    [] c = "\\" -> <<"\\", "\\">>
    [] c = NL -> <<"\\", "n">>
    [] c = "\r" -> <<"\\", "r">>
    [] c = "\t" -> <<"\\", "t">>
    [] c = "\f" -> <<"\\", "f">>
    [] OTHER -> <<c>>

RECURSIVE JsonEscape(_)
JsonEscape(s) ==
  IF s = <<>> THEN <<>> ELSE JsonEscapeChar(Head(s)) \o JsonEscape(Tail(s))

JsonString(s) == <<"\"">> \o JsonEscape(s) \o <<"\"">>

\* sorted(pairs) by key: insertion sort
RECURSIVE InsertPair(_, _)
InsertPair(p, sorted) ==
  IF sorted = <<>> THEN <<p>>
  ELSE IF StrLess(p[1], Head(sorted)[1]) THEN <<p>> \o sorted
  ELSE <<Head(sorted)>> \o InsertPair(p, Tail(sorted))

RECURSIVE SortPairs(_)
SortPairs(pairs) ==
  IF pairs = <<>> THEN <<>>
  ELSE InsertPair(Head(pairs), SortPairs(Tail(pairs)))

\* json.dumps(v, indent=JSON_INDENT, sort_keys=True) at nesting depth `level`
RECURSIVE JsonIndented(_, _)
JsonIndented(v, level) ==
  LET pad == Rep(" ", JSON_INDENT * (level + 1))
      close == Rep(" ", JSON_INDENT * level)
      sep == <<",", NL>> \o pad
  IN CASE v.t = "none" -> <<"n", "u", "l", "l">>
       [] v.t = "bool" -> IF v.b THEN <<"t", "r", "u", "e">>
                          ELSE <<"f", "a", "l", "s", "e">>
       [] v.t = "int" -> IntText(v.n)
       [] v.t = "str" -> JsonString(v.s)
       [] v.t = "list" ->
            IF v.elems = <<>> THEN <<"[", "]">>
            ELSE <<"[", NL>> \o pad
                 \o StrJoin(sep, [i \in 1..Len(v.elems) |->
                                    JsonIndented(v.elems[i], level + 1)])
                 \o <<NL>> \o close \o <<"]">>
       [] v.t = "dict" ->
            IF v.pairs = <<>> THEN <<"{", "}">>
            ELSE LET ps == SortPairs(v.pairs)
                 IN <<"{", NL>> \o pad
                    \o StrJoin(sep, [i \in 1..Len(ps) |->
                          JsonString(ps[i][1]) \o <<":", " ">>
                          \o JsonIndented(ps[i][2], level + 1)])
                    \o <<NL>> \o close \o <<"}">>

\* json.dumps(v): compact, keys in insertion order
RECURSIVE JsonCompact(_)
JsonCompact(v) ==
  CASE v.t = "none" -> <<"n", "u", "l", "l">>
    [] v.t = "bool" -> IF v.b THEN <<"t", "r", "u", "e">>
                       ELSE <<"f", "a", "l", "s", "e">>
    [] v.t = "int" -> IntText(v.n)
    [] v.t = "str" -> JsonString(v.s)
    [] v.t = "list" ->
         <<"[">> \o StrJoin(<<",", " ">>, [i \in 1..Len(v.elems) |->
                                            JsonCompact(v.elems[i])])
         \o <<"]">>
    [] v.t = "dict" ->
         <<"{">> \o StrJoin(<<",", " ">>, [i \in 1..Len(v.pairs) |->
                      JsonString(v.pairs[i][1]) \o <<":", " ">>
                      \o JsonCompact(v.pairs[i][2])])
         \o <<"}">>

\* ------------------------------------------------------------------ FIELDS
K_cmd == <<"c", "m", "d">>
K_command == <<"c", "o", "m", "m", "a", "n", "d">>
K_start == <<"s", "t", "a", "r", "t">>
K_end == <<"e", "n", "d">>
K_delta == <<"d", "e", "l", "t", "a">>
K_msg == <<"m", "s", "g">>
K_stdout == <<"s", "t", "d", "o", "u", "t">>
K_stderr == <<"s", "t", "d", "e", "r", "r">>
K_results == <<"r", "e", "s", "u", "l", "t", "s">>

\* Fields to reformat output for
FIELDS ==
  <<K_cmd, K_command, K_start, K_end, K_delta, K_msg, K_stdout, K_stderr,
    K_results>>

\* --------------------------------------------------------- _format_output
\* The outcome of a call: exc is "" when it returns and the exception's name
\* when it raises; text is the str returned; arg is the argument object as
\* the call leaves it (the list-of-dicts branch assigns into its items).
Returned(text, arg) == [exc |-> "", text |-> text, arg |-> arg]
Raised(exc, arg) == [exc |-> exc, text |-> <<>>, arg |-> arg]

\* {k: v for k, v in filtered_output.items() if k in self.whitelist_keys}
WhitelistFilter(whitelist_keys, output) ==
  LET Listed(p) == \E i \in 1..Len(whitelist_keys) : whitelist_keys[i] = p[1]
  IN IF whitelist_keys # <<>>
     THEN PyDict(SelectSeq(output.pairs, Listed))
     ELSE output

\* The loop of the list-of-strings branch from item i on: lines are the
\* strings appended to real_output, nonstr tells whether an item that is no
\* str was appended as it is.
RECURSIVE SplitLines(_, _)
SplitLines(elems, i) ==
  IF i > Len(elems) THEN [exc |-> "", lines |-> <<>>, nonstr |-> FALSE]
  ELSE LET item == elems[i]
           rest == SplitLines(elems, i + 1)
       IN CASE item.t = "str" ->
                 [rest EXCEPT !.lines =
                    (IF CharIn(NL, item.s) THEN StrSplit(item.s, NL)
                     ELSE <<item.s>>) \o @]
            [] item.t \in {"int", "bool", "none"} ->
                 \* "\n" in item : argument is not iterable
                 [exc |-> "TypeError", lines |-> <<>>, nonstr |-> FALSE]
            [] item.t = "dict" ->
                 IF HasKey(item, <<NL>>)
                 THEN [exc |-> "AttributeError", lines |-> <<>>,
                       nonstr |-> FALSE]
                 ELSE [rest EXCEPT !.nonstr = TRUE]
            [] item.t = "list" ->
                 IF \E j \in 1..Len(item.elems) : item.elems[j] = PyStr(<<NL>>)
                 THEN [exc |-> "AttributeError", lines |-> <<>>,
                       nonstr |-> FALSE]
                 ELSE [rest EXCEPT !.nonstr = TRUE]

\* len("".join(real_output)) > 75
OverLimitOff(lines) == Len(Concat(lines)) >= INLINE_LIMIT

OverLimit(lines) == Len(Concat(lines)) > INLINE_LIMIT

RECURSIVE _format_output(_, _)
RECURSIVE FormatFields(_, _, _)
RECURSIVE FormatItems(_, _, _)

\* for field in FIELDS: if field in item.keys(): copy[field] = ...
\* from the j-th field on; copy is item itself, so item is assigned into.
FormatFields(whitelist_keys, item, j) ==
  IF j > Len(FIELDS) THEN [exc |-> "", item |-> item]
  ELSE IF ~HasKey(item, FIELDS[j])
       THEN FormatFields(whitelist_keys, item, j + 1)
       ELSE LET r == _format_output(whitelist_keys,
                                    DictGet(item, FIELDS[j], PyNone))
            IN IF r.exc # ""
               THEN [exc |-> r.exc, item |-> DictSet(item, FIELDS[j], r.arg)]
               ELSE FormatFields(whitelist_keys,
                                 DictSet(item, FIELDS[j], PyStr(r.text)),
                                 j + 1)

\* for index, item in enumerate(output): ... from the i-th item on
FormatItems(whitelist_keys, elems, i) ==
  IF i > Len(elems) THEN [exc |-> "", elems |-> elems]
  ELSE IF ~IsDict(elems[i]) THEN FormatItems(whitelist_keys, elems, i + 1)
       ELSE LET r == FormatFields(whitelist_keys, elems[i], 1)
                now == [elems EXCEPT ![i] = r.item]
            IN IF r.exc # "" THEN [exc |-> r.exc, elems |-> now]
               ELSE FormatItems(whitelist_keys, now, i + 1)

_format_output(whitelist_keys, output) ==
  IF IsDict(output)
  THEN Returned(JsonIndented(WhitelistFilter(whitelist_keys, output), 0),
                output)
  ELSE IF IsList(output)
  THEN IF output.elems = <<>>
       THEN Raised("IndexError", output)      \* output[0]
       ELSE IF IsDict(output.elems[1])
       THEN LET r == FormatItems(whitelist_keys, output.elems, 1)
            IN IF r.exc # "" THEN Raised(r.exc, PyList(r.elems))
               ELSE Returned(JsonIndented(PyList(r.elems), 0),
                             PyList(r.elems))
       ELSE LET r == SplitLines(output.elems, 1)
            IN IF r.exc # "" THEN Raised(r.exc, output)
               ELSE IF r.nonstr THEN Raised("TypeError", output) \* "".join
               ELSE IF OverLimit(r.lines)
               THEN Returned(<<NL>> \o StrJoin(<<NL>>, r.lines), output)
               ELSE Returned(StrJoin(<<" ">>, r.lines), output)
  ELSE Returned(PyStrOf(output), output)

\* ------------------------------------------------------- names and defaults
K_no_log ==
  <<"_", "a", "n", "s", "i", "b", "l", "e", "_", "n", "o", "_", "l", "o", "g">>
K_verbose_override ==
  <<"_", "a", "n", "s", "i", "b", "l", "e", "_", "v", "e", "r", "b", "o", "s",
    "e", "_", "o", "v", "e", "r", "r", "i", "d", "e">>
K_invocation == <<"i", "n", "v", "o", "c", "a", "t", "i", "o", "n">>
K_module_args == <<"m", "o", "d", "u", "l", "e", "_", "a", "r", "g", "s">>
T_omitted == <<"o", "m", "i", "t", "t", "e", "d">>
T_arrow == <<" ", "=", ">", " ">>
T_yes == <<"y", "e", "s">>
T_no == <<"n", "o">>
T_zero == <<"0">>
LOGGER_PREFIX ==
  <<"b", "a", "b", "e", "l", "f", "i", "s", "h", "_", "l", "o", "g", "_">>

DEFAULT_FOLDER ==
  <<"/", "v", "a", "r", "/", "l", "o", "g", "/", "a", "n", "s", "i", "b", "l",
    "e", "/", "h", "o", "s", "t", "s">>
DEFAULT_TIME_FORMAT ==
  <<"%", "b", " ", "%", "d", " ", "%", "Y", " ", "%", "H", ":", "%", "M", ":",
    "%", "S">>

\* A template is a sequence of pieces: a named placeholder %(ph)s or literal
\* text.
Placeholder(name) == [ph |-> name, lit |-> <<>>]
Literal(text) == [ph |-> "", lit |-> text]
T_dash == <<" ", "-", " ">>
DEFAULT_MSG_FORMAT ==
  <<Placeholder("now"), Literal(T_dash), Placeholder("playbook"),
    Literal(T_dash), Placeholder("task_name"), Literal(T_dash),
    Placeholder("task_action"), Literal(T_dash), Placeholder("category"),
    Literal(T_dash), Placeholder("data"), Literal(<<NL, NL>>)>>

\* ------------------------------------------------------------------- state
VARIABLES
  phase,              \* "constructed", then "configured" once set_options
                      \* returned, or "failed" once it raised
  plugin_options,     \* self._plugin_options: option name -> resolved value
  log_folder, time_format, msg_format, max_bytes, backup_count,
  format_invocation, respect_no_log, whitelist_keys,   \* attributes
  loggers,            \* CallbackModule.loggers: host -> logger name
  playbook,           \* CallbackModule.playbook
  logging,            \* the logging module: name -> logger or placeholder
  dirs,               \* the directories that exist
  files,              \* the files that exist: path -> number of the file
  inodes,             \* number of a file -> the records it holds, oldest first
  clock,              \* how many events the plugin has received
  trace,              \* the events received so far, oldest first
  fmt_in, fmt_out     \* an argument of _format_output and the call's outcome

attrs ==
  <<log_folder, time_format, msg_format, max_bytes, backup_count,
    format_invocation, respect_no_log, whitelist_keys>>
sinks == <<loggers, logging, files, inodes>>
fmt == <<fmt_in, fmt_out>>
vars ==
  <<phase, plugin_options, attrs, loggers, playbook, logging, dirs, files,
    inodes, clock, trace, fmt>>

NotCalled == [exc |-> "not called", text |-> <<>>, arg |-> PyNone]

\* The working directory of the process and the directories that exist when
\* it starts
CWD == <<"/">>

\* The class attributes, an interpreter that has created no logger, and a
\* file system without the log folder.
PluginInit ==
  /\ phase = "constructed"
  /\ plugin_options = << >>
  /\ log_folder = DEFAULT_FOLDER
  /\ time_format = DEFAULT_TIME_FORMAT
  /\ msg_format = DEFAULT_MSG_FORMAT
  /\ max_bytes = 0
  /\ backup_count = 0
  /\ format_invocation = FALSE
  /\ respect_no_log = TRUE
  /\ whitelist_keys = <<>>
  /\ loggers = << >>
  /\ playbook = PyNone
  /\ logging = << >>
  /\ dirs = {CWD}
  /\ files = << >>
  /\ inodes = <<>>
  /\ clock = 0
  /\ trace = <<>>

Init ==
  /\ PluginInit
  /\ fmt_in = PyNone
  /\ fmt_out = NotCalled

\* ------------------------------------------------------------ os.path, open
\* os.path.join(a, b)
PathJoin(a, b) ==
  IF b # <<>> /\ b[1] = "/" THEN b
  ELSE IF a = <<>> \/ a[Len(a)] = "/" THEN a \o b
  ELSE a \o <<"/">> \o b

\* the loop of os.path.normpath over the components of a path
RECURSIVE NormComps(_, _, _)
NormComps(comps, new, slashes) ==
  IF comps = <<>> THEN new
  ELSE LET c == Head(comps)
           rest == Tail(comps)
       IN IF c = <<>> \/ c = <<".">> THEN NormComps(rest, new, slashes)
          ELSE IF \/ c # <<".", ".">>
                  \/ (slashes = 0 /\ new = <<>>)
                  \/ (new # <<>> /\ new[Len(new)] = <<".", ".">>)
          THEN NormComps(rest, Append(new, c), slashes)
          ELSE IF new # <<>>
          THEN NormComps(rest, SubSeq(new, 1, Len(new) - 1), slashes)
          ELSE NormComps(rest, new, slashes)

\* os.path.normpath(path)
NormPath(path) ==
  LET slashes ==
        IF path = <<>> \/ path[1] # "/" THEN 0
        ELSE IF /\ Len(path) >= 2 /\ path[2] = "/"
                /\ ~(Len(path) >= 3 /\ path[3] = "/")
        THEN 2
        ELSE 1
      joined == Rep("/", slashes)
                  \o StrJoin(<<"/">>,
                             NormComps(StrSplit(path, "/"), <<>>, slashes))
  IN IF joined = <<>> THEN <<".">> ELSE joined

\* os.path.abspath(path), which FileHandler applies to its file name
AbsPath(path) ==
  NormPath(IF path # <<>> /\ path[1] = "/" THEN path ELSE PathJoin(CWD, path))

\* The one name under which the file system knows an absolute, normalised
\* path: two leading slashes name the same place as one.
Canon(path) ==
  IF Len(path) >= 2 /\ path[1] = "/" /\ path[2] = "/" THEN Tail(path)
  ELSE path

\* the directories on the way from the root to p, p excluded
ProperAncestors(p) ==
  {<<"/">>} \cup {SubSeq(p, 1, i - 1) : i \in {j \in 2..Len(p) : p[j] = "/"}}

\* os.makedirs(path): the directory and every missing one above it
MakeDirs(existing, path) == existing \cup ProperAncestors(path) \cup {path}

\* The file system: the directories, the files by path, and what each file
\* holds.  A file that lost its name keeps its records for the streams that
\* are open on it.
FileSystem(d, names, data) == [dirs |-> d, names |-> names, data |-> data]

\* os.path.exists(path)
Exists(fs, path) == path \in fs.dirs \/ path \in DOMAIN fs.names

\* open(path, 'a'): the number of the file, created empty when missing
OpenAppend(fs, path) ==
  LET missing == {a \in ProperAncestors(path) : a \notin fs.dirs}
      first == CHOOSE a \in missing : \A b \in missing : Len(a) <= Len(b)
      new == Len(fs.data) + 1
  IN IF path \in fs.dirs
     THEN [exc |-> "IsADirectoryError", fs |-> fs, inode |-> 0]
     ELSE IF path \in DOMAIN fs.names
     THEN [exc |-> "", fs |-> fs, inode |-> fs.names[path]]
     ELSE IF missing # {}
     THEN [exc |-> IF first \in DOMAIN fs.names THEN "NotADirectoryError"
                   ELSE "FileNotFoundError",
           fs |-> fs, inode |-> 0]
     ELSE [exc |-> "",
           fs |-> [fs EXCEPT
                     !.names = [q \in DOMAIN fs.names \cup {path} |->
                                  IF q = path THEN new ELSE fs.names[q]],
                     !.data = Append(fs.data, <<>>)],
           inode |-> new]

\* os.remove(path) of an existing path
Remove(fs, path) ==
  IF path \in fs.dirs THEN [exc |-> "IsADirectoryError", fs |-> fs]
  ELSE [exc |-> "",
        fs |-> [fs EXCEPT !.names = [q \in DOMAIN fs.names \ {path} |->
                                       fs.names[q]]]]

\* where path p is after src was renamed to dst: src itself and what lies
\* below it move
Moved(p, src, dst) ==
  IF p = src THEN dst
  ELSE IF /\ Len(p) > Len(src)
          /\ SubSeq(p, 1, Len(src)) = src
          /\ (src[Len(src)] = "/" \/ p[Len(src) + 1] = "/")
  THEN dst \o SubSeq(p, Len(src) + 1, Len(p))
  ELSE p

\* os.rename(src, dst) of an existing src to a dst that does not exist: a
\* directory moves with all it holds
Rename(fs, src, dst) ==
  [fs EXCEPT
     !.dirs = {Moved(d, src, dst) : d \in fs.dirs},
     !.names = [q \in {Moved(p, src, dst) : p \in DOMAIN fs.names} |->
                  fs.names[CHOOSE p \in DOMAIN fs.names :
                             Moved(p, src, dst) = q]]]

\* ------------------------------------------------------------- set_options
WHITESPACE == {" ", "\t", NL, "\r", "\f"}

\* str.strip()
RECURSIVE Strip(_)
Strip(text) ==
  IF text = <<>> THEN text
  ELSE IF Head(text) \in WHITESPACE THEN Strip(Tail(text))
  ELSE IF text[Len(text)] \in WHITESPACE
  THEN Strip(SubSeq(text, 1, Len(text) - 1))
  ELSE text

\* the value of a run of decimal digits
RECURSIVE DigitsValue(_)
DigitsValue(text) ==
  IF text = <<>> THEN 0
  ELSE 10 * DigitsValue(SubSeq(text, 1, Len(text) - 1))
       + (CHOOSE d \in 0..9 : DIGITS[d + 1] = text[Len(text)])

\* int(text): blanks around, an optional sign, then decimal digits that
\* single underscores may separate; anything else raises ValueError
IntOf(text) ==
  LET s == Strip(text)
      signed == s # <<>> /\ s[1] \in {"+", "-"}
      body == IF signed THEN Tail(s) ELSE s
      IsDigit(c) == \E d \in 1..10 : DIGITS[d] = c
      NotUnderscore(c) == c # "_"
      ok == /\ body # <<>>
            /\ IsDigit(body[1])
            /\ IsDigit(body[Len(body)])
            /\ \A i \in 1..Len(body) : IsDigit(body[i]) \/ body[i] = "_"
            /\ \A i \in 1..(Len(body) - 1) :
                 ~(body[i] = "_" /\ body[i + 1] = "_")
      n == DigitsValue(SelectSeq(body, NotUnderscore))
  IN IF ~ok THEN [exc |-> "ValueError", val |-> 0]
     ELSE [exc |-> "", val |-> IF signed /\ s[1] = "-" THEN 0 - n ELSE n]

\* self.get_option(name) if name in self._plugin_options else default
OptionOr(options, name, default) ==
  IF name \in DOMAIN options THEN options[name] ELSE default

\* (...).split(','): the text is cut at every comma, nothing is dropped
ResolveWhitelist(options) ==
  StrSplit(OptionOr(options, "whitelist_dict_keys", <<>>), ",")

\* (...).lower() == 'yes'
ResolveFormatInvocation(options) ==
  StrLower(OptionOr(options, "format_invocation", T_no)) = T_yes

\* The assignments are made in the order of the source; int() of a text that
\* is no numeral raises and leaves the later ones undone.
set_options(options) ==
  LET mb == IntOf(OptionOr(options, "max_bytes", T_zero))
      bc == IntOf(OptionOr(options, "backup_count", T_zero))
      folder == OptionOr(options, "log_folder", DEFAULT_FOLDER)
  IN /\ phase = "constructed"
     /\ plugin_options' = options
     /\ log_folder' = folder
     /\ time_format' = OptionOr(options, "time_format", DEFAULT_TIME_FORMAT)
     /\ msg_format' = OptionOr(options, "msg_format", DEFAULT_MSG_FORMAT)
     /\ IF mb.exc # ""
        THEN /\ phase' = "failed"
             /\ UNCHANGED <<max_bytes, backup_count, format_invocation,
                            whitelist_keys, dirs>>
        ELSE IF bc.exc # ""
        THEN /\ phase' = "failed"
             /\ max_bytes' = mb.val
             /\ UNCHANGED <<backup_count, format_invocation, whitelist_keys,
                            dirs>>
        ELSE /\ phase' = "configured"
             /\ max_bytes' = mb.val
             /\ backup_count' = bc.val
             /\ format_invocation' = ResolveFormatInvocation(options)
             /\ whitelist_keys' = ResolveWhitelist(options)
             /\ dirs' = MakeDirs(dirs, Canon(AbsPath(folder)))
     /\ UNCHANGED <<respect_no_log, loggers, playbook, logging, files, inodes,
                    clock, trace, fmt>>

\* ------------------------------------------------------- logging.getLogger
\* the name of the root logger, on which every chain of parents ends
ROOT == <<"r", "o", "o", "t">>

\* name.rfind(".", 0, end): the index, counted from 0, of the last dot before
\* index end, or -1
RFindDot(name, end) ==
  LET at == {k \in 0..(end - 1) : k < Len(name) /\ name[k + 1] = "."}
  IN IF at = {} THEN 0 - 1 ELSE CHOOSE k \in at : \A j \in at : j <= k

Put(lg, name, entry) ==
  [n \in DOMAIN lg \cup {name} |-> IF n = name THEN entry ELSE lg[n]]

\* Manager._fixupParents from the dot at index i on: the prefixes of the
\* name that end before a dot are visited from the longest down; a missing
\* one becomes a placeholder, a placeholder notes the logger, and the first
\* logger met becomes the parent.
RECURSIVE FixupParents(_, _, _)
FixupParents(lg, name, i) ==
  IF i <= 0 THEN [lg EXCEPT ![name].parent = ROOT]
  ELSE LET substr == SubSeq(name, 1, i)
           next == RFindDot(name, i - 1)
       IN IF substr \notin DOMAIN lg
          THEN FixupParents(Put(lg, substr,
                                [kind |-> "placeholder", level |-> NOTSET,
                                 handlers |-> <<>>, parent |-> ROOT,
                                 children |-> {name}]),
                            name, next)
          ELSE IF lg[substr].kind = "logger"
          THEN [lg EXCEPT ![name].parent = substr]
          ELSE FixupParents([lg EXCEPT ![substr].children = @ \cup {name}],
                            name, next)

\* Manager._fixupChildren: the loggers noted by the placeholder that stood
\* at `name` are hung below the new logger, unless their parent's name
\* already starts with `name`
FixupChildren(lg, noted, name) ==
  [n \in DOMAIN lg |->
     IF /\ n \in noted
        /\ SubSeq(lg[n].parent, 1,
                  IF Len(lg[n].parent) < Len(name) THEN Len(lg[n].parent)
                  ELSE Len(name)) # name
     THEN [lg[n] EXCEPT !.parent = name]
     ELSE lg[n]]

\* logging.getLogger(name): the one logger of that name, created when new
GetLogger(lg, name) ==
  IF name \in DOMAIN lg /\ lg[name].kind = "logger" THEN lg
  ELSE LET noted == IF name \in DOMAIN lg THEN lg[name].children ELSE {}
           rv == [kind |-> "logger", level |-> NOTSET, handlers |-> <<>>,
                  parent |-> ROOT, children |-> {}]
       IN FixupParents(FixupChildren(Put(lg, name, rv), noted, name),
                       name, RFindDot(name, Len(name)))

\* ------------------------------------------------------------- _get_logger
\* 'babelfish_log_%s' % host
LoggerName(host) == LOGGER_PREFIX \o host

\* self.loggers[host] = logger
RegistryForgets(registry, host, name) == registry

RegistryPut(registry, host, name) ==
  [h \in DOMAIN registry \cup {host} |->
     IF h = host THEN name ELSE registry[h]]

\* What _get_logger(host) does to the registry, the logging module and the
\* file system.  The logger is looked up or created and its level set; the
\* handler opens its file for appending as it is built, and an open that
\* fails raises before the handler is added and the host registered.
_get_logger(registry, lg, fs, folder, maxBytes, backupCount, host) ==
  LET name == LoggerName(host)
      baseFilename == AbsPath(PathJoin(folder, host))
      got == [GetLogger(lg, name) EXCEPT ![name].level = INFO]
      opened == OpenAppend(fs, Canon(baseFilename))
      handler == [path |-> baseFilename, level |-> NOTSET,
                  maxBytes |-> maxBytes, backupCount |-> backupCount,
                  stream |-> opened.inode]
  IN IF opened.exc # ""
     THEN [exc |-> opened.exc, logger |-> name, loggers |-> registry,
           logging |-> got, fs |-> fs]
     ELSE [exc |-> "", logger |-> name,
           loggers |-> RegistryPut(registry, host, name),
           logging |-> [got EXCEPT ![name].handlers = Append(@, handler)],
           fs |-> opened.fs]

\* ------------------------------------------------------------ logger.log
\* the number of characters of a sequence of texts
RECURSIVE TextLen(_)
TextLen(texts) ==
  IF texts = <<>> THEN 0 ELSE Len(Head(texts)) + TextLen(Tail(texts))

\* stream.tell() at the end of a file
RECURSIVE FileSize(_)
FileSize(records) ==
  IF records = <<>> THEN 0
  ELSE TextLen(Head(records)) + FileSize(Tail(records))

\* "%s.%d" % (baseFilename, i)
BackupName(baseFilename, i) == Canon(baseFilename \o <<".">> \o IntText(i))

\* The loop of doRollover for i, i - 1, ..., 1: backup i, when there is
\* one, takes the place of backup i + 1
RECURSIVE ShiftBackups(_, _, _)
ShiftBackups(fs, baseFilename, i) ==
  IF i < 1 THEN [exc |-> "", fs |-> fs]
  ELSE LET sfn == BackupName(baseFilename, i)
           dfn == BackupName(baseFilename, i + 1)
           Renamed(removed) ==
             IF removed.exc # "" THEN removed
             ELSE ShiftBackups(Rename(removed.fs, sfn, dfn), baseFilename,
                               i - 1)
       IN IF ~Exists(fs, sfn) THEN ShiftBackups(fs, baseFilename, i - 1)
          ELSE Renamed(IF Exists(fs, dfn) THEN Remove(fs, dfn)
                       ELSE [exc |-> "", fs |-> fs])

\* RotatingFileHandler.doRollover: the stream is closed, the backups move up
\* by one, the file becomes backup 1 and a new stream is opened on the base
\* name.  Each step is given what the step before it left; stream is 0 when
\* the handler is left without one.
DoRollover(fs, h) ==
  LET base == Canon(h.path)
      dfn == BackupName(h.path, 1)
      Removed(shifted) ==
        IF shifted.exc = "" /\ Exists(shifted.fs, dfn)
        THEN Remove(shifted.fs, dfn)
        ELSE shifted
      Rotated(removed) ==
        IF removed.exc = "" /\ Exists(removed.fs, base)
        THEN [exc |-> "", fs |-> Rename(removed.fs, base, dfn)]
        ELSE removed
      Stream(opened) ==
        [exc |-> opened.exc, fs |-> opened.fs, stream |-> opened.inode]
      Opened(moved) ==
        IF moved.exc # ""
        THEN [exc |-> moved.exc, fs |-> moved.fs, stream |-> 0]
        ELSE Stream(OpenAppend(moved.fs, base))
  IN Opened(IF h.backupCount > 0
            THEN Rotated(Removed(ShiftBackups(fs, h.path,
                                              h.backupCount - 1)))
            ELSE [exc |-> "", fs |-> fs])

\* RotatingFileHandler.emit of handler k of logger n: shouldRollover,
\* doRollover when it says so, then the record is written to the stream.
\* An exception on the way is handed to handleError: the record is not
\* written by this handler and the call goes on.  Each step is given what
\* the step before it left.
Emit(lg, fs, n, k, record) ==
  LET h == lg[n].handlers[k]
      base == Canon(h.path)
      regular == base \notin fs.dirs
      Appended(last) ==
        [logging |-> [lg EXCEPT ![n].handlers[k].stream = last.inode],
         fs |-> IF last.exc # "" THEN last.fs
                ELSE [last.fs EXCEPT !.data[last.inode] = Append(@, record)]]
      Streamed(rolled) ==
        Appended(IF rolled.exc = "" /\ rolled.stream = 0
                 THEN OpenAppend(rolled.fs, base)
                 ELSE [exc |-> rolled.exc, fs |-> rolled.fs,
                       inode |-> rolled.stream])
      Rolled(first) ==
        Streamed(IF /\ regular
                    /\ first.exc = ""
                    /\ h.maxBytes > 0
                    /\ FileSize(first.fs.data[first.inode]) + TextLen(record)
                         >= h.maxBytes
                 THEN DoRollover(first.fs, h)
                 ELSE [exc |-> first.exc, fs |-> first.fs,
                       stream |-> first.inode])
  IN Rolled(IF regular /\ h.stream = 0 THEN OpenAppend(fs, base)
            ELSE [exc |-> "", fs |-> fs, inode |-> h.stream])

\* Logger.callHandlers: the handlers of the logger, then those of its
\* parent, and so on up to the root (propagate is left True; the root has
\* no handler), as <<logger name, index>> pairs
RECURSIVE HandlerChain(_, _)
HandlerChain(lg, name) ==
  IF name = ROOT \/ name \notin DOMAIN lg THEN <<>>
  ELSE [k \in 1..Len(lg[name].handlers) |-> <<name, k>>]
         \o HandlerChain(lg, lg[name].parent)

\* the handlers of the chain take the record one after the other
RECURSIVE EmitAll(_, _, _, _, _)
EmitAll(lg, fs, chain, level, record) ==
  IF chain = <<>> THEN [logging |-> lg, fs |-> fs]
  ELSE LET n == Head(chain)[1]
           k == Head(chain)[2]
           Rest(done) ==
             EmitAll(done.logging, done.fs, Tail(chain), level, record)
       IN Rest(IF level >= lg[n].handlers[k].level
               THEN Emit(lg, fs, n, k, record)
               ELSE [logging |-> lg, fs |-> fs])

\* Logger.isEnabledFor(level): the logger's own level is set, so it decides
IsEnabledFor(lg, name, level) == level >= lg[name].level

\* logger.log(log_level, msg): every handler reached is given msg and the
\* terminator
LoggerLog(lg, fs, name, level, msg) ==
  IF ~IsEnabledFor(lg, name, level) THEN [logging |-> lg, fs |-> fs]
  ELSE EmitAll(lg, fs, HandlerChain(lg, name), level, Append(msg, <<NL>>))

\* ------------------------------------------------------------ time.strftime
WEEKDAYS ==
  <<<<"M", "o", "n", "d", "a", "y">>,
    <<"T", "u", "e", "s", "d", "a", "y">>,
    <<"W", "e", "d", "n", "e", "s", "d", "a", "y">>,
    <<"T", "h", "u", "r", "s", "d", "a", "y">>,
    <<"F", "r", "i", "d", "a", "y">>,
    <<"S", "a", "t", "u", "r", "d", "a", "y">>,
    <<"S", "u", "n", "d", "a", "y">>>>
MONTHS ==
  <<<<"J", "a", "n", "u", "a", "r", "y">>,
    <<"F", "e", "b", "r", "u", "a", "r", "y">>,
    <<"M", "a", "r", "c", "h">>,
    <<"A", "p", "r", "i", "l">>,
    <<"M", "a", "y">>,
    <<"J", "u", "n", "e">>,
    <<"J", "u", "l", "y">>,
    <<"A", "u", "g", "u", "s", "t">>,
    <<"S", "e", "p", "t", "e", "m", "b", "e", "r">>,
    <<"O", "c", "t", "o", "b", "e", "r">>,
    <<"N", "o", "v", "e", "m", "b", "e", "r">>,
    <<"D", "e", "c", "e", "m", "b", "e", "r">>>>

\* time.struct_time, as time.localtime() returns it
StructTime(year, mon, mday, hour, min, sec, wday, yday, zone, gmtoff) ==
  [tm_year |-> year, tm_mon |-> mon, tm_mday |-> mday, tm_hour |-> hour,
   tm_min |-> min, tm_sec |-> sec, tm_wday |-> wday, tm_yday |-> yday,
   tm_zone |-> zone, tm_gmtoff |-> gmtoff]

\* n in at least `width` characters, filled on the left with `pad`
Padded(n, width, pad) ==
  LET text == IntText(n)
  IN Rep(pad, IF Len(text) < width THEN width - Len(text) ELSE 0) \o text

IsLeap(year) == year % 4 = 0 /\ (year % 100 # 0 \/ year % 400 = 0)

\* the ISO 8601 year and week of a time
IsoWeek(tm) ==
  LET jan1 == (tm.tm_wday - (tm.tm_yday - 1)) % 7      \* Monday is 0
      Weeks(first, leap) ==
        IF first = 3 \/ (leap /\ first = 2) THEN 53 ELSE 52
      week == (tm.tm_yday - (tm.tm_wday + 1) + 10) \div 7
      before == IsLeap(tm.tm_year - 1)
      jan1Before == (jan1 - (IF before THEN 366 ELSE 365)) % 7
  IN IF week < 1
     THEN [year |-> tm.tm_year - 1, week |-> Weeks(jan1Before, before)]
     ELSE IF week > Weeks(jan1, IsLeap(tm.tm_year))
     THEN [year |-> tm.tm_year + 1, week |-> 1]
     ELSE [year |-> tm.tm_year, week |-> week]

\* What one conversion %c of the C library's strftime gives in the C
\* locale.  A letter that is no conversion is copied with its percent sign.
\* Flags, widths, the E and O modifiers and %s are not covered: for them the
\* operator has no value.
Conversion(c, tm) ==
  LET hour12 == IF tm.tm_hour % 12 = 0 THEN 12 ELSE tm.tm_hour % 12
      sunday0 == (tm.tm_wday + 1) % 7
      D2(n) == Padded(n, 2, "0")
      S2(n) == Padded(n, 2, " ")
      yy == D2(tm.tm_year % 100)
      hms == D2(tm.tm_hour) \o <<":">> \o D2(tm.tm_min) \o <<":">>
               \o D2(tm.tm_sec)
      mdy == D2(tm.tm_mon) \o <<"/">> \o D2(tm.tm_mday) \o <<"/">> \o yy
      day3 == SubSeq(WEEKDAYS[tm.tm_wday + 1], 1, 3)
      mon3 == SubSeq(MONTHS[tm.tm_mon], 1, 3)
      ampm == IF tm.tm_hour < 12 THEN <<"A", "M">> ELSE <<"P", "M">>
      off == IF tm.tm_gmtoff < 0 THEN 0 - tm.tm_gmtoff ELSE tm.tm_gmtoff
  IN CASE c = "a" -> day3
       [] c = "A" -> WEEKDAYS[tm.tm_wday + 1]
       [] c \in {"b", "h"} -> mon3
       [] c = "B" -> MONTHS[tm.tm_mon]
       [] c = "c" -> day3 \o <<" ">> \o mon3 \o <<" ">> \o S2(tm.tm_mday)
                       \o <<" ">> \o hms \o <<" ">> \o IntText(tm.tm_year)
       [] c = "C" -> D2(tm.tm_year \div 100)
       [] c = "d" -> D2(tm.tm_mday)
       [] c \in {"D", "x"} -> mdy
       [] c = "e" -> S2(tm.tm_mday)
       [] c = "F" -> IntText(tm.tm_year) \o <<"-">> \o D2(tm.tm_mon)
                       \o <<"-">> \o D2(tm.tm_mday)
       [] c = "g" -> D2(IsoWeek(tm).year % 100)
       [] c = "G" -> IntText(IsoWeek(tm).year)
       [] c = "H" -> D2(tm.tm_hour)
       [] c = "I" -> D2(hour12)
       [] c = "j" -> Padded(tm.tm_yday, 3, "0")
       [] c = "k" -> S2(tm.tm_hour)
       [] c = "l" -> S2(hour12)
       [] c = "m" -> D2(tm.tm_mon)
       [] c = "M" -> D2(tm.tm_min)
       [] c = "n" -> <<NL>>
       [] c = "p" -> ampm
       [] c = "P" -> StrLower(ampm)
       [] c = "r" -> D2(hour12) \o <<":">> \o D2(tm.tm_min) \o <<":">>
                       \o D2(tm.tm_sec) \o <<" ">> \o ampm
       [] c = "R" -> D2(tm.tm_hour) \o <<":">> \o D2(tm.tm_min)
       [] c = "S" -> D2(tm.tm_sec)
       [] c = "t" -> <<"\t">>
       [] c \in {"T", "X"} -> hms
       [] c = "u" -> IntText(tm.tm_wday + 1)
       [] c = "U" -> D2((tm.tm_yday - 1 + 7 - sunday0) \div 7)
       [] c = "V" -> D2(IsoWeek(tm).week)
       [] c = "w" -> IntText(sunday0)
       [] c = "W" -> D2((tm.tm_yday - 1 + 7 - tm.tm_wday) \div 7)
       [] c = "y" -> yy
       [] c = "Y" -> IntText(tm.tm_year)
       [] c = "z" -> <<IF tm.tm_gmtoff < 0 THEN "-" ELSE "+">>
                       \o D2(off \div 3600) \o D2((off \div 60) % 60)
       [] c = "Z" -> tm.tm_zone
       [] c = "%" -> <<"%">>
       [] c \notin {"a", "A", "b", "h", "B", "c", "C", "d", "D", "x", "e",
                    "F", "g", "G", "H", "I", "j", "k", "l", "m", "M", "n",
                    "p", "P", "r", "R", "S", "t", "T", "X", "u", "U", "V",
                    "w", "W", "y", "Y", "z", "Z", "%",
                    "s", "E", "O", "_", "-", "^", "#", "+",
                    "0", "1", "2", "3", "4", "5", "6", "7", "8", "9"}
            -> <<"%", c>>

\* time.strftime(format, tm): the text of the format is copied and every
\* conversion replaced; a percent sign that ends the format is copied
RECURSIVE Strftime(_, _)
Strftime(format, tm) ==
  IF format = <<>> THEN <<>>
  ELSE IF Head(format) # "%"
  THEN <<Head(format)>> \o Strftime(Tail(format), tm)
  ELSE IF Len(format) = 1 THEN <<"%">>
  ELSE Conversion(format[2], tm)
         \o Strftime(SubSeq(format, 3, Len(format)), tm)

\* The readings of time.localtime(), one per second, and the reading taken
\* by the event after `tick` earlier ones: two events fall into each second.
T_CET == <<"C", "E", "T">>
LocalTime(tick) ==
  LET readings ==
        <<StructTime(2024, 3, 1, 0, 59, 59, 4, 61, T_CET, 3600),
          StructTime(2024, 3, 1, 1, 0, 0, 4, 61, T_CET, 3600),
          StructTime(2024, 3, 1, 1, 0, 1, 4, 61, T_CET, 3600)>>
  IN readings[((tick \div 2) % Len(readings)) + 1]

\* ------------------------------------------------------------------- log
\* isinstance(data, MutableMapping) or isinstance(data, dict)
IsMappingNever(data) == FALSE

IsMapping(data) == IsDict(data)

\* The test of line 243, inside the mapping branch, that ends log() early.
\* The line is cut short in the source ("if self.resp data.get(...)"); the
\* test is taken from the specification: suppression is enabled and the
\* payload carries a no-log marker that is true.
NoLogSuppressed(respect, data) ==
  respect /\ Truthy(DictGet(data, K_no_log, PyBool(FALSE)))

\* invocation = data.pop('invocation', {}): what is left in data
PopKeepsInvocation(data) == data

PopInvocation(data) == DictWithout(data, K_invocation)

\* data = 'omitted'
RedactedLeaksBody(whitelist, data) ==
  JsonIndented(WhitelistFilter(whitelist, data), 0)

Redacted(whitelist, data) == T_omitted

\* The data of lines 242-258 for a payload that is not suppressed: exc is ""
\* and text the value of data, or exc names the exception raised; after is
\* the caller's payload as the lines leave it.  data.copy() is shallow, so
\* the module_args that _format_output is given are the caller's own, and
\* what it assigns into their items shows in the caller's payload.
RenderData(whitelist, formatInvocation, data) ==
  IF ~IsMapping(data)
  THEN [exc |-> "", text |-> PyStrOf(data), after |-> data]
  ELSE IF HasKey(data, K_verbose_override)
  THEN [exc |-> "", text |-> Redacted(whitelist, data), after |-> data]
  ELSE LET invocation == DictGet(data, K_invocation, PyDict(<<>>))
           args == IF IsDict(invocation)
                   THEN DictGet(invocation, K_module_args, PyNone)
                   ELSE PyNone
           body == _format_output(whitelist, PopInvocation(data))
           inv == IF formatInvocation THEN _format_output(whitelist, args)
                  ELSE Returned(JsonCompact(args), args)
           left == DictSet(data, K_invocation,
                           DictSet(invocation, K_module_args, inv.arg))
       IN IF ~IsDict(invocation)                          \* invocation.get
          THEN [exc |-> "AttributeError", text |-> <<>>, after |-> data]
          ELSE IF body.exc # ""
          THEN [exc |-> body.exc, text |-> <<>>, after |-> data]
          ELSE IF args.t = "none"
          THEN [exc |-> "", text |-> body.text, after |-> data]
          ELSE IF inv.exc # ""
          THEN [exc |-> inv.exc, text |-> <<>>, after |-> left]
          ELSE [exc |-> "",
                text |-> inv.text \o T_arrow \o body.text \o <<" ">>,
                after |-> left]

\* template % values: one text per piece of the template
Compose(template, values) ==
  [i \in 1..Len(template) |->
     IF template[i].ph = "" THEN template[i].lit ELSE values[template[i].ph]]

\* the text that stands for placeholder `name` in a composed message
Segment(template, msg, name) ==
  msg[CHOOSE i \in 1..Len(template) : template[i].ph = name]

\* What is kept of a call of log: payload is result._result as it was
\* passed and payload_after the same object when the call ends.
LogEntry(result, after, category, level, outcome, msg, missed) ==
  [kind |-> "log", category |-> category, level |-> level,
   host |-> result.host, task_name |-> result.task_name,
   task_action |-> result.task_action, payload |-> result.payload,
   payload_after |-> after, file_name |-> <<>>, outcome |-> outcome,
   msg |-> msg, missed |-> missed]

\* The values named d, g and out are computed once each: d is the data of
\* lines 241-258, g the logger of line 271 and out what line 273 leaves.
log(result, category, log_level) ==
  LET data == result.payload
      host_name == result.host
      hit == host_name \in DOMAIN loggers
      fs == FileSystem(dirs, files, inodes)
      now == Strftime(time_format, LocalTime(clock))
  IN /\ phase = "configured"
     /\ Len(trace) < MaxEvents
     /\ clock' = clock + 1
     /\ IF IsMapping(data) /\ NoLogSuppressed(respect_no_log, data)
        THEN /\ trace' = Append(trace,
                                LogEntry(result, data, category, log_level,
                                         "suppressed", <<>>, FALSE))
             /\ UNCHANGED <<sinks, dirs>>
        ELSE \E d \in {RenderData(whitelist_keys, format_invocation, data)} :
          IF d.exc # ""
          THEN /\ trace' = Append(trace,
                                  LogEntry(result, d.after, category,
                                           log_level, d.exc, <<>>, FALSE))
               /\ UNCHANGED <<sinks, dirs>>
          ELSE \E msg \in {Compose(msg_format,
                                    [now |-> now,
                                     playbook |-> PyStrOf(playbook),
                                     task_name |-> result.task_name,
                                     task_action |-> result.task_action,
                                     category |-> category,
                                     data |-> d.text])} :
               \E g \in {IF hit
                          THEN [exc |-> "", logger |-> loggers[host_name],
                                loggers |-> loggers, logging |-> logging,
                                fs |-> fs]
                          ELSE _get_logger(loggers, logging, fs, log_folder,
                                           max_bytes, backup_count,
                                           host_name)} :
                 IF g.exc # ""
                 THEN /\ trace' = Append(trace,
                                         LogEntry(result, d.after, category,
                                                  log_level, g.exc, msg,
                                                  ~hit))
                      /\ logging' = g.logging
                      /\ UNCHANGED <<loggers, files, inodes, dirs>>
                 ELSE \E out \in {LoggerLog(g.logging, g.fs, g.logger,
                                            log_level, msg)} :
                        /\ trace' = Append(trace,
                                           LogEntry(result, d.after, category,
                                                    log_level, "written", msg,
                                                    ~hit))
                        /\ loggers' = g.loggers
                        /\ logging' = out.logging
                        /\ dirs' = out.fs.dirs
                        /\ files' = out.fs.names
                        /\ inodes' = out.fs.data
     /\ UNCHANGED <<phase, plugin_options, attrs, playbook, fmt>>

\* ------------------------------------------------------------------ inputs
H_web == <<"w", "e", "b">>
H_web_local == <<"w", "e", "b", ".", "l", "o", "c", "a", "l">>
H_db == <<"d", "b">>
Hosts == {H_web, H_web_local, H_db}

PB_site == <<"s", "i", "t", "e", ".", "y", "m", "l">>
PB_db == <<"d", "b", ".", "y", "m", "l">>
PlaybookFiles == {PB_site, PB_db}

TN_setup == <<"s", "e", "t", "u", "p">>
TN_ping == <<"p", "i", "n", "g">>
TA_shell == <<"s", "h", "e", "l", "l">>
TA_ping == <<"p", "i", "n", "g">>

K_rc == <<"r", "c">>

\* module_args whose insertion order is not the sorted order, with a value
\* that json.dumps escapes
Invocation ==
  PyDict(<<<<K_module_args,
             PyDict(<<<<<<"s", "t", "a", "t", "e">>, PyStr(<<"u", "\t">>)>>,
                      <<<<"n", "a", "m", "e">>, PyStr(<<"x">>)>>>>)>>>>)

P_ok ==
  PyDict(<<<<K_rc, PyInt(0)>>, <<K_invocation, Invocation>>,
           <<K_msg, PyStr(<<"o", "k">>)>>,
           <<<<"c", "h", "a", "n", "g", "e", "d">>, PyBool(FALSE)>>>>)
P_noinv ==
  PyDict(<<<<K_stderr, PyStr(<<"e", NL, "\t", "f">>)>>, <<K_rc, PyInt(1)>>>>)
\* module_args that are a list of mappings, one with a field of FIELDS
P_items ==
  PyDict(<<<<K_invocation,
             PyDict(<<<<K_module_args,
                        PyList(<<PyDict(<<<<K_cmd,
                                            PyList(<<PyStr(<<"a">>),
                                                     PyStr(<<"b">>)>>)>>>>),
                                 PyDict(<<<<<<"x">>, PyInt(1)>>>>)>>)>>>>)>>,
           <<K_rc, PyInt(0)>>>>)
P_noargs == PyDict(<<<<K_invocation, PyDict(<<>>)>>, <<K_rc, PyInt(0)>>>>)
P_nolog ==
  PyDict(<<<<K_no_log, PyBool(TRUE)>>, <<K_msg, PyStr(<<"p", "w">>)>>,
           <<K_invocation, Invocation>>>>)
P_nolog_false == PyDict(<<<<K_no_log, PyBool(FALSE)>>, <<K_rc, PyInt(0)>>>>)
P_verbose ==
  PyDict(<<<<K_verbose_override, PyBool(TRUE)>>,
           <<K_msg, PyStr(<<"f", "a", "c", "t", "s">>)>>,
           <<K_invocation, Invocation>>>>)
P_both ==
  PyDict(<<<<K_no_log, PyBool(TRUE)>>, <<K_verbose_override, PyBool(TRUE)>>,
           <<K_rc, PyInt(0)>>>>)
P_scalar == PyStr(<<"d", "o", "w", "n">>)

Result(host, task_name, task_action, payload) ==
  [host |-> host, task_name |-> task_name, task_action |-> task_action,
   payload |-> payload]

\* The results each callback is given
ResultsFor(category) ==
  CASE category = "OK" ->
         {Result(H_web, TN_setup, TA_shell, P_ok),
          Result(H_web_local, TN_ping, TA_ping, P_ok),
          Result(H_web, TN_ping, TA_ping, P_nolog),
          Result(H_db, TN_setup, TA_shell, P_verbose)}
    [] category = "FAILED" ->
         {Result(H_web, TN_setup, TA_shell, P_noinv),
          Result(H_db, TN_ping, TA_ping, P_nolog)}
    [] category = "SKIPPED" ->
         {Result(H_web_local, TN_setup, TA_shell, P_nolog_false),
          Result(H_web, TN_setup, TA_shell, P_nolog)}
    [] category = "UNREACHABLE" ->
         {Result(H_db, TN_ping, TA_ping, P_scalar),
          Result(H_web_local, TN_ping, TA_ping, P_both)}
    [] category = "ASYNC_FAILED" ->
         {Result(H_web, TN_ping, TA_ping, P_noargs),
          Result(H_web_local, TN_setup, TA_shell, P_nolog)}
    [] category = "IMPORTED" ->
         {Result(H_db, TN_setup, TA_shell, P_items),
          Result(H_db, TN_setup, TA_shell, P_nolog)}
    [] category = "NOTIMPORTED" ->
         {Result(H_web_local, TN_ping, TA_ping, P_verbose),
          Result(H_web, TN_ping, TA_ping, P_both)}

\* The option sets the plugin is configured with
OptionSets ==
  { << >>,
    [whitelist_dict_keys |-> <<>>, format_invocation |-> T_no,
     respect_no_log |-> T_yes, max_bytes |-> <<"1", "0", "0">>,
     backup_count |-> <<"1">>],
    [whitelist_dict_keys |->
       <<"r", "c", ",", "i", "n", "v", "o", "c", "a", "t", "i", "o", "n", ",",
         "n", "a", "m", "e">>,
     format_invocation |-> <<"Y", "e", "s">>,
     respect_no_log |-> T_no, log_folder |-> <<"/", "t", "m", "p">>],
    [whitelist_dict_keys |-> K_msg,
     time_format |->
       <<"%", "Y", "-", "%", "m", "-", "%", "d", " ", "%", "H", ":", "%",
         "M">>],
    [respect_no_log |-> T_no, format_invocation |-> T_yes],
    [max_bytes |-> <<>>],
    [max_bytes |-> <<"1", "0", "0">>, backup_count |-> <<"1", "x">>] }

\* ---------------------------------------------------------------- callbacks
CategoryText(category) ==
  CASE category = "OK" -> <<"O", "K">>
    [] category = "FAILED" -> <<"F", "A", "I", "L", "E", "D">>
    [] category = "SKIPPED" -> <<"S", "K", "I", "P", "P", "E", "D">>
    [] category = "UNREACHABLE" -> <<"U", "N", "R", "E", "A", "C", "H", "A", "B", "L", "E">>
    [] category = "ASYNC_FAILED" -> <<"A", "S", "Y", "N", "C", "_", "F", "A", "I", "L", "E", "D">>
    [] category = "IMPORTED" -> <<"I", "M", "P", "O", "R", "T", "E", "D">>
    [] category = "NOTIMPORTED" -> <<"N", "O", "T", "I", "M", "P", "O", "R", "T", "E", "D">>

v2_runner_on_failed ==
  \E result \in ResultsFor("FAILED") :
    log(result, CategoryText("FAILED"), ERROR)

v2_runner_on_ok ==
  \E result \in ResultsFor("OK") : log(result, CategoryText("OK"), INFO)

v2_runner_on_skipped ==
  \E result \in ResultsFor("SKIPPED") :
    log(result, CategoryText("SKIPPED"), INFO)

v2_runner_on_unreachable ==
  \E result \in ResultsFor("UNREACHABLE") :
    log(result, CategoryText("UNREACHABLE"), WARNING)

v2_runner_on_async_failed ==
  \E result \in ResultsFor("ASYNC_FAILED") :
    log(result, CategoryText("ASYNC_FAILED"), ERROR)

\* self.playbook = playbook._file_name
StartedPlaybookOnce(current, file_name) ==
  IF current.t = "none" THEN PyStr(file_name) ELSE current

StartedPlaybook(current, file_name) == PyStr(file_name)

v2_playbook_on_start ==
  \E file_name \in PlaybookFiles :
    /\ phase = "configured"
    /\ Len(trace) < MaxEvents
    /\ playbook' = StartedPlaybook(playbook, file_name)
    /\ clock' = clock + 1
    /\ trace' = Append(trace,
                       [kind |-> "start", category |-> <<>>, level |-> 0,
                        host |-> <<>>, task_name |-> <<>>,
                        task_action |-> <<>>, payload |-> PyNone,
                        payload_after |-> PyNone,
                        file_name |-> file_name, outcome |-> "set",
                        msg |-> <<>>, missed |-> FALSE])
    /\ UNCHANGED <<phase, plugin_options, attrs, sinks, dirs, fmt>>

v2_playbook_on_import_for_host ==
  \E result \in ResultsFor("IMPORTED") :
    log(result, CategoryText("IMPORTED"), INFO)

v2_playbook_on_not_import_for_host ==
  \E result \in ResultsFor("NOTIMPORTED") :
    log(result, CategoryText("NOTIMPORTED"), INFO)

Configure == \E options \in OptionSets : set_options(options)

Next ==
  \/ Configure
  \/ v2_runner_on_failed
  \/ v2_runner_on_ok
  \/ v2_runner_on_skipped
  \/ v2_runner_on_unreachable
  \/ v2_runner_on_async_failed
  \/ v2_playbook_on_start
  \/ v2_playbook_on_import_for_host
  \/ v2_playbook_on_not_import_for_host

Spec == Init /\ [][Next]_vars

\* ------------------------------------------- _format_output, called alone
A40 == Rep("a", 40)
B40 == Rep("b", 40)

StrPool ==
  {<<>>, <<"x">>, <<"y">>, <<NL>>, <<"l", "1", NL, "l", "2">>,
   Rep("a", 37), Rep("a", 38), Rep("b", 38), A40, B40,
   Rep("a", 37) \o <<NL>> \o Rep("b", 38)}

\* lists of 1..MaxListLen strings of the pool
StringLists ==
  UNION {{PyList([i \in 1..n |-> PyStr(f[i])]) : f \in [1..n -> StrPool]} :
           n \in 1..MaxListLen}

Mappings ==
  {PyDict(<<>>), P_ok, P_noinv,
   PyDict(<<<<K_stdout, PyStr(<<"l", "1", NL, "l", "2">>)>>,
            <<K_rc, PyInt(0)>>>>),
   PyDict(<<<<<<>>, PyInt(1)>>, <<K_rc, PyInt(0)>>,
            <<K_msg, PyStr(<<"q", "\"">>)>>>>)}

D_rc == PyDict(<<<<K_rc, PyInt(0)>>>>)

Sequences ==
  {PyList(<<>>),
   PyList(<<D_rc, PyStr(<<"s">>)>>),
   PyList(<<PyStr(<<"s">>), D_rc>>),
   PyList(<<PyInt(1), PyInt(2)>>),
   PyList(<<PyDict(<<<<K_stdout, PyList(<<PyStr(<<"a">>),
                                          PyStr(<<"b", NL, "c">>)>>)>>,
                     <<K_rc, PyInt(0)>>, <<K_cmd, PyStr(<<"x">>)>>>>),
            PyDict(<<<<K_msg, PyStr(<<"m">>)>>>>)>>),
   PyList(<<PyDict(<<<<K_cmd, PyStr(<<"x">>)>>,
                     <<K_results, PyList(<<>>)>>>>)>>),
   PyList(<<PyDict(<<<<K_results, PyList(<<D_rc>>)>>, <<K_end, PyNone>>>>),
            PyInt(7)>>)}

FormatInputs ==
  StringLists \cup Mappings \cup Sequences
    \cup {PyStr(<<"a", "b", "c">>), PyInt(120), PyNone, PyBool(TRUE)}

FormatInit ==
  /\ PluginInit
  /\ fmt_in \in FormatInputs
  /\ fmt_out = NotCalled

\* one call self._format_output(fmt_in)
Render ==
  /\ fmt_out = NotCalled
  /\ fmt_out' = _format_output(whitelist_keys, fmt_in)
  /\ UNCHANGED <<phase, plugin_options, attrs, loggers, playbook, logging,
                 dirs, files, inodes, clock, trace, fmt_in>>

FormatNext ==
  \/ Configure
  \/ Render

FormatSpec == FormatInit /\ [][FormatNext]_vars

\* ------------------------------------------------------------ properties
IsLog(e) == e.kind = "log"
IsStart(e) == e.kind = "start"
Written(e) == IsLog(e) /\ e.outcome = "written"
Suppressed(e) == IsLog(e) /\ e.outcome = "suppressed"

\* the payload is a mapping whose no-log marker is set true
Marked(payload) ==
  IsDict(payload) /\ DictGet(payload, K_no_log, PyBool(FALSE)) = PyBool(TRUE)

\* the payload is a mapping that carries the verbose-override marker
Overridden(payload) == IsDict(payload) /\ HasKey(payload, K_verbose_override)

DataOf(e) == Segment(msg_format, e.msg, "data")
PlaybookOf(e) == Segment(msg_format, e.msg, "playbook")

\* the record a handler writes for a composed message
RecordOf(e) == Append(e.msg, <<NL>>)

\* the path of the file of host h under the log folder
PathOfHost(h) == Canon(AbsPath(PathJoin(log_folder, h)))

\* what the file at path p holds when the files by path are `byPath` and
\* their records `held`; nothing while it does not exist
FileAt(byPath, held, p) ==
  IF p \in DOMAIN byPath THEN held[byPath[p]] ELSE <<>>

\* the file of a host under the log folder
FileOfHost(h) == FileAt(files, inodes, PathOfHost(h))

\* the paths of a host's sink: its file and the backups of that file
SinkPaths(h) ==
  {PathOfHost(h)} \cup {BackupName(PathOfHost(h), i) : i \in 1..backup_count}

\* what the files at the paths of `paths` hold
FilesAt(byPath, held, paths) ==
  [p \in paths \cap DOMAIN byPath |-> held[byPath[p]]]

\* the records of the events of host h that were not suppressed and did not
\* fail, in arrival order
RecordsOfHost(h) ==
  LET Mine(e) == Written(e) /\ e.host = h
      mine == SelectSeq(trace, Mine)
  IN [i \in 1..Len(mine) |-> RecordOf(mine[i])]

MissesOf(h) ==
  Cardinality({i \in 1..Len(trace) :
                 IsLog(trace[i]) /\ trace[i].host = h /\ trace[i].missed})

\* C1: the registry holds at most one sink per host: a host's lookup misses
\* at most once, namely at its first line, and every later one hits and
\* leaves its logger with the one handler on the host's own file; different
\* hosts are registered with different loggers and different files.
C1_OneSinkPerHost ==
  /\ \A h \in Hosts : MissesOf(h) <= 1
  /\ \A i \in 1..Len(trace) :
       Written(trace[i]) =>
         (trace[i].missed <=>
            ~\E j \in 1..(i - 1) :
               Written(trace[j]) /\ trace[j].host = trace[i].host)
  /\ DOMAIN loggers =
       {trace[i].host : i \in {j \in 1..Len(trace) : Written(trace[j])}}
  /\ \A h \in DOMAIN loggers :
       /\ loggers[h] \in DOMAIN logging
       /\ Len(logging[loggers[h]].handlers) = 1
       /\ logging[loggers[h]].handlers[1].path
            = AbsPath(PathJoin(log_folder, h))
  /\ \A h1, h2 \in DOMAIN loggers :
       h1 # h2 =>
         /\ loggers[h1] # loggers[h2]
         /\ logging[loggers[h1]].handlers[1].path
              # logging[loggers[h2]].handlers[1].path

\* a miss, a hit on the same host, and a second host registered
C1_Witness ==
  /\ \E i, j \in 1..Len(trace) :
       /\ i < j
       /\ Written(trace[i]) /\ Written(trace[j])
       /\ trace[i].host = trace[j].host
       /\ trace[i].missed /\ ~trace[j].missed
  /\ Cardinality(DOMAIN loggers) >= 2

\* C2: every line is appended only to the file of its event's host, in
\* arrival order: an event that is logged puts its record at the end of its
\* host's file, after the records already there or, when the file rolled
\* over, as its first record, and leaves the file and the backups of every
\* other host as they were.
C2_PerHostStep ==
  LET n == Len(trace')
      e == trace'[n]
  IN (n = Len(trace) + 1 /\ Written(e))
       => \A h \in Hosts :
            IF h = e.host
            THEN \/ FileAt(files', inodes', PathOfHost(h))
                      = Append(FileOfHost(h), RecordOf(e))
                 \/ FileAt(files', inodes', PathOfHost(h)) = <<RecordOf(e)>>
            ELSE FilesAt(files', inodes', SinkPaths(h))
                   = FilesAt(files, inodes, SinkPaths(h))

C2_PerHostFiles == [][C2_PerHostStep]_vars

\* C3: with respect_no_log true, an event of any of the seven kinds whose
\* payload is a mapping with the no-log marker set true ends early: it is
\* recorded as suppressed and no logger, handler or file changes.
C3_NoLogStep ==
  LET n == Len(trace')
      e == trace'[n]
  IN (n = Len(trace) + 1 /\ IsLog(e) /\ Marked(e.payload) /\ respect_no_log)
       => /\ Suppressed(e)
          /\ UNCHANGED <<loggers, logging, dirs, files, inodes>>

C3_NoLog == [][C3_NoLogStep]_vars

\* a marked event was received after a line had been written
C3_Witness ==
  \E i, j \in 1..Len(trace) :
    /\ i < j
    /\ Written(trace[i])
    /\ Suppressed(trace[j]) /\ Marked(trace[j].payload)
    /\ trace[j].host = trace[i].host
    /\ respect_no_log

\* C4 as stated: whatever else the payload holds, a no-log marker included,
\* an event whose payload carries the verbose-override marker produces a
\* line whose data segment is the text omitted.
C4_RedactionAlways ==
  \A i \in 1..Len(trace) :
    (IsLog(trace[i]) /\ Overridden(trace[i].payload))
      => /\ Written(trace[i])
         /\ DataOf(trace[i]) = T_omitted

\* C4 amended: an event whose payload carries the verbose-override marker
\* and no true no-log marker produces a line, the last of its host's file
\* when the event returns, and the data segment of that line is the text
\* omitted, whatever else the payload holds (invocation arguments included).
C4_RedactionStep ==
  LET n == Len(trace')
      e == trace'[n]
  IN (/\ n = Len(trace) + 1
      /\ IsLog(e)
      /\ Overridden(e.payload)
      /\ ~Truthy(DictGet(e.payload, K_no_log, PyBool(FALSE))))
       => /\ Written(e)
          /\ DataOf(e) = T_omitted
          /\ \A h \in Hosts :
               h = e.host =>
                 LET after == FileAt(files', inodes', PathOfHost(h))
                 IN after # <<>> /\ after[Len(after)] = RecordOf(e)

C4_RedactionUnlessNoLog == [][C4_RedactionStep]_vars

\* an overridden payload with invocation arguments was logged
C4_Witness ==
  \E i \in 1..Len(trace) :
    /\ Written(trace[i])
    /\ Overridden(trace[i].payload)
    /\ HasKey(trace[i].payload, K_invocation)
    /\ DataOf(trace[i]) = T_omitted

\* the whitelist_dict_keys option as configured ('' when unset)
WhitelistOption == OptionOr(plugin_options, "whitelist_dict_keys", <<>>)

\* the mapping M cut down to the keys in `keys`, in M's order
Restricted(M, keys) ==
  LET In(p) == p[1] \in keys IN PyDict(SelectSeq(M.pairs, In))

\* what C5 says of a call that renders the mapping M to `text` under the
\* whitelist option `option`
WhitelistedText(option, M, text) ==
  IF option = <<>>
  THEN text = JsonIndented(M, 0)
  ELSE LET listed == {StrSplit(option, ",")[i] :
                        i \in 1..Len(StrSplit(option, ","))}
       IN text = JsonIndented(Restricted(M, listed), 0)

\* C5: with an empty (or unset) whitelist option a call that renders a
\* mapping M returns the key-sorted text of all of M's keys and values;
\* with a non-empty option it returns that of M's keys that are in the
\* comma-separated list.
C5_WhitelistingStep ==
  (fmt_out.exc = "not called" /\ fmt_out'.exc # "not called" /\ IsDict(fmt_in))
    => /\ fmt_out'.exc = ""
       /\ WhitelistedText(WhitelistOption, fmt_in, fmt_out'.text)

C5_Whitelisting == [][C5_WhitelistingStep]_vars

\* the respect_no_log option as resolved (yes when unset)
RespectNoLogOption ==
  StrLower(OptionOr(plugin_options, "respect_no_log", T_yes)) # T_no

\* C6: the respect_no_log option decides: a marked payload is suppressed
\* when the option is true and is written as one line to its host's file
\* when the option is false.
C6_OptionControls ==
  \A i \in 1..Len(trace) :
    (IsLog(trace[i]) /\ Marked(trace[i].payload))
      => IF RespectNoLogOption THEN Suppressed(trace[i])
         ELSE Written(trace[i])

\* a list that holds both mappings and other values
Mixed(v) ==
  /\ \E i \in 1..Len(v.elems) : IsDict(v.elems[i])
  /\ \E i \in 1..Len(v.elems) : ~IsDict(v.elems[i])

\* C7: rendering an empty sequence, or one that mixes mappings and other
\* elements, does not raise.
C7_NoCrash ==
  (/\ fmt_out.exc # "not called"
   /\ IsList(fmt_in)
   /\ (fmt_in.elems = <<>> \/ Mixed(fmt_in)))
    => fmt_out.exc = ""

\* the latest playbook-start event among the first n events, 0 if none
LastStart(events, n) ==
  IF \E j \in 1..n : IsStart(events[j])
  THEN CHOOSE j \in 1..n :
         /\ IsStart(events[j])
         /\ \A k \in (j + 1)..n : ~IsStart(events[k])
  ELSE 0

\* C8: the playbook field of a composed line is the file name of the most
\* recent playbook-start event before it, and a playbook-start event
\* changes no attribute other than the playbook, no logger, no handler and
\* no file.
C8_PlaybookStep ==
  LET n == Len(trace')
      e == trace'[n]
      s == LastStart(trace', n - 1)
  IN n = Len(trace) + 1 =>
       /\ IsStart(e) => UNCHANGED <<attrs, sinks, dirs, plugin_options>>
       /\ (Written(e) /\ s # 0) => PlaybookOf(e) = trace'[s].file_name

C8_CurrentPlaybook == [][C8_PlaybookStep]_vars

\* two playbooks were started and a line composed after the second
C8_Witness ==
  \E i, j, k \in 1..Len(trace) :
    /\ i < j /\ j < k
    /\ IsStart(trace[i]) /\ IsStart(trace[j])
    /\ trace[i].file_name # trace[j].file_name
    /\ Written(trace[k])
    /\ PlaybookOf(trace[k]) = trace[j].file_name

IsStringList(v) ==
  /\ IsList(v)
  /\ v.elems # <<>>
  /\ \A i \in 1..Len(v.elems) : IsStr(v.elems[i])

\* the elements cut at every newline, as one list of lines
FlatLines(v) ==
  StrSplit(StrJoin(<<NL>>, [i \in 1..Len(v.elems) |-> v.elems[i].s]), NL)

\* C9: a non-empty list of strings is cut at every embedded newline into
\* one list of lines; if the lines hold more than 75 characters in all the
\* result is a newline followed by the lines joined by newlines, otherwise
\* the lines joined by single spaces.  Two strings of 40 characters give a
\* block of two lines after a newline, and ["x", "y"] gives "x y".
C9_StringList ==
  (fmt_out.exc # "not called" /\ IsStringList(fmt_in))
    => /\ fmt_out.exc = ""
       /\ fmt_out.text =
            (IF TextLen(FlatLines(fmt_in)) > 75
             THEN <<NL>> \o StrJoin(<<NL>>, FlatLines(fmt_in))
             ELSE StrJoin(<<" ">>, FlatLines(fmt_in)))
       /\ fmt_in = PyList(<<PyStr(A40), PyStr(B40)>>)
            => fmt_out.text = <<NL>> \o A40 \o <<NL>> \o B40
       /\ fmt_in = PyList(<<PyStr(<<"x">>), PyStr(<<"y">>)>>)
            => fmt_out.text = <<"x", " ", "y">>

\* a string with an embedded newline was cut and the lines, 76 characters
\* in all, were set as a block
C9_Witness ==
  /\ fmt_out.exc = ""
  /\ IsStringList(fmt_in)
  /\ \E i \in 1..Len(fmt_in.elems) : CharIn(NL, fmt_in.elems[i].s)
  /\ TextLen(FlatLines(fmt_in)) = 76
  /\ Len(FlatLines(fmt_in)) > Len(fmt_in.elems)
  /\ Head(fmt_out.text) = NL

\* the invocation arguments of a mapping payload, None when there are none
ArgsOf(payload) ==
  DictGet(DictGet(payload, K_invocation, PyDict(<<>>)), K_module_args, PyNone)

\* C10: for a mapping payload that is neither suppressed nor redacted, the
\* body is rendered from the payload without its invocation entry; with
\* invocation arguments the data segment is their text, " => ", the body
\* and a space, the arguments being dumped compactly as they are when
\* format_invocation is off and rendered by the formatter when it is on;
\* without invocation arguments the data segment is the body alone.
C10_Invocation ==
  \A i \in 1..Len(trace) :
    (/\ Written(trace[i])
     /\ IsDict(trace[i].payload)
     /\ ~Overridden(trace[i].payload))
      => LET payload == trace[i].payload
             rest == Restricted(payload, DictKeys(payload) \ {K_invocation})
             body == _format_output(whitelist_keys, rest).text
             args == ArgsOf(payload)
             shown == IF format_invocation
                      THEN _format_output(whitelist_keys, args).text
                      ELSE JsonCompact(args)
         IN DataOf(trace[i]) =
              (IF args.t = "none" THEN body
               ELSE shown \o <<" ", "=", ">", " ">> \o body \o <<" ">>)

\* a payload with invocation arguments was logged under a whitelist that
\* names the invocation key
C10_Witness ==
  \E i \in 1..Len(trace) :
    /\ Written(trace[i])
    /\ trace[i].payload = P_ok
    /\ \E k \in 1..Len(whitelist_keys) : whitelist_keys[k] = K_invocation
    /\ format_invocation

====
